---------------------------- MODULE Spec2Model ----------------------------
(***************************************************************************)
(* Verification model of the dashboard backend: the TTL cache, the rate    *)
(* limiter, the filter normaliser and cache key, the dashboard request     *)
(* pipeline and the insight generator.                                     *)
(*                                                                         *)
(* Each subsystem has its own specification (SpecCache, SpecRate, ...).    *)
(* All of them share the variables below; a specification leaves the       *)
(* variables of the other subsystems at their initial values.              *)
(***************************************************************************)
EXTENDS Integers, Sequences, FiniteSets, TLC

VARIABLES
    now,        \* Date.now(), in milliseconds
    cache,      \* Cache.cache: Map<string, CacheItem>, a function on the keys present
    written,    \* history: per key, what the last set stored and when it must lapse
    ret,        \* return value of the cache operation that has just run
    options,    \* rateLimit(config): the limiter's windowMs and maxRequests
    store,      \* the rate limiter's module-level store: key -> {count, resetTime}
    pending,    \* requests received whose middleware has not run yet, per key
    reqLog,     \* history: per key, the requests handled so far and what the
                \* middleware answered, oldest first
    unswept,    \* history: the store as it would be had no sweep ever run
    limiters,   \* the middlewares made by rateLimit(...): the options each closes over
    own,        \* history: per limiter, the store it would have if it shared none
    lLog,       \* history: the requests the limiters handled, oldest first
    kQuery,     \* req.query: the parameters of a request, in the order sent
    kFilters,   \* the DashboardFilters object built for it, in insertion order
    kKey,       \* the cacheKey getDashboardData derives from kFilters
    kGen,       \* Cache.generateKey('dashboard', kFilters)
    kFirst,     \* history: the parameters and keys of the first request
    dataVersion,\* the lead data in the database: bumped by every change to it
    faults,     \* persistence queries that have failed so far
    req,        \* per HTTP request: where its handler is and what it has so far
    stores,     \* history: the cache.set calls made by request handlers, in order
    iDb,        \* the leads the insight generator's queries return
    iCall,      \* the last call of generateActionableInsights and its outcome
    sDb,        \* the lead table the repository reads
    sFilters,   \* the DashboardFilters of the calls
    sCalls,     \* history: the calls of getDashboardData and what they returned
    sSeries,    \* the last call of a period series function and its result
    rTable,     \* the rows getAllBranchesPerformance returns, in collection order
    rBranch,    \* filters.branch of the ranking calls
    rFirst,     \* history: the first call of getBranchRanking
    rLast,      \* the last call of getBranchRanking: the table it saw, its result
    san,        \* the last call of sanitizeString: its argument and what it returned
    route       \* per HTTP request: its path, query and client, and how far
                \* down the middleware stack of its route it has come

cacheVars == <<cache, written, ret>>
rateVars == <<options, store, pending, reqLog, unswept>>
limVars == <<limiters, own, lLog>>

keyVars == <<kQuery, kFilters, kKey, kGen, kFirst>>

dashVars == <<dataVersion, faults, req, stores>>

insVars == <<iDb, iCall>>

seriesVars == <<sDb, sFilters, sCalls, sSeries>>

rankVars == <<rTable, rBranch, rFirst, rLast>>

sanVars == <<san>>

routeVars == <<route>>

vars == <<routeVars, sanVars, now, cacheVars, rateVars, limVars, keyVars, dashVars, insVars, seriesVars, rankVars>>

\* what a specification of one subsystem leaves alone
notCache == <<routeVars, sanVars, limVars, rateVars, keyVars, dashVars, insVars, seriesVars, rankVars>>
notRate == <<routeVars, sanVars, limVars, cacheVars, keyVars, dashVars, insVars, seriesVars, rankVars>>
notKey == <<routeVars, sanVars, limVars, cacheVars, rateVars, dashVars, insVars, seriesVars, rankVars>>
notDash == <<routeVars, sanVars, limVars, written, ret, rateVars, keyVars, insVars, seriesVars, rankVars>>
notInsight == <<routeVars, sanVars, limVars, cacheVars, rateVars, keyVars, dashVars, seriesVars, rankVars>>
notRank == <<routeVars, sanVars, limVars, cacheVars, rateVars, keyVars, dashVars, insVars, seriesVars>>
notLimiters == <<routeVars, sanVars, cacheVars, options, pending, reqLog, unswept, keyVars,
                 dashVars, insVars, seriesVars, rankVars>>
notSeries == <<routeVars, sanVars, limVars, written, ret, rateVars, keyVars, dashVars, insVars, rankVars>>

(***************************************************************************)
(* Time                                                                    *)
(***************************************************************************)
\* horizon of the clock, in milliseconds
MaxTime == 3000

\* 1 second in milliseconds (ttl * 1000, defaultTTL * 1000, retryAfter / 1000)
MsPerSec == 1000

\* The clock moves forward by one of the given steps, up to the horizon.
Advance(steps) ==
    \E d \in steps : now + d <= MaxTime /\ now' = now + d

(***************************************************************************)
(* TTL cache (class Cache)                                                 *)
(***************************************************************************)
\* null / undefined
Null == [isNull |-> TRUE]
\* an optional argument: << >> when omitted, <<n>> when n is passed
Omitted == << >>
Given(n) == <<n>>

\* appConfig.cacheTTL: CACHE_TTL || '300'
CacheTTL == 300

\* Cache.constructor: this.defaultTTL = defaultTTL * 1000
DefaultTTLms == CacheTTL * MsPerSec

\* Map.prototype.set
MapSet(m, key, item) ==
    [k \in (DOMAIN m) \cup {key} |-> IF k = key THEN item ELSE m[k]]

\* Map.prototype.delete
MapDelete(m, key) == [k \in (DOMAIN m) \ {key} |-> m[k]]

EmptyMap == [k \in {} |-> Null]

\* mutant of IsExpired: an entry counts as expired at its expiry instant already
IsExpiredAtInstant(t, item) == t >= item.expiresAt

\* Cache.get / Cache.has / Cache.cleanup: Date.now() > item.expiresAt
IsExpired(t, item) == t > item.expiresAt

\* Cache.get: the cache after the call and the value returned
CacheGet(c, key, t) ==
    IF key \notin DOMAIN c
    THEN [cache |-> c, value |-> Null]
    ELSE IF IsExpired(t, c[key])
         THEN [cache |-> MapDelete(c, key), value |-> Null]
         ELSE [cache |-> c, value |-> c[key].data]

\* Cache.set: ttl is in seconds; a falsy ttl (omitted, or 0) selects defaultTTL
CacheSet(c, key, value, ttl, t) ==
    LET span == IF ttl # Omitted /\ ttl[1] # 0
                THEN ttl[1] * MsPerSec
                ELSE DefaultTTLms
    IN  MapSet(c, key, [data |-> value, expiresAt |-> t + span])

\* Cache.delete: the cache after the call and the boolean returned
CacheDelete(c, key) ==
    [cache |-> MapDelete(c, key), value |-> key \in DOMAIN c]

\* Cache.has
CacheHas(c, key, t) ==
    IF key \notin DOMAIN c
    THEN [cache |-> c, value |-> FALSE]
    ELSE IF IsExpired(t, c[key])
         THEN [cache |-> MapDelete(c, key), value |-> FALSE]
         ELSE [cache |-> c, value |-> TRUE]

\* mutant of CacheCleanup: the sweep also deletes the entries that expire at
\* the instant it runs
CacheCleanupInclusive(c, t) ==
    [k \in {j \in DOMAIN c : t < c[j].expiresAt} |-> c[k]]

\* Cache.cleanup: the periodic sweep deletes every expired entry
CacheCleanup(c, t) ==
    [k \in {j \in DOMAIN c : ~IsExpired(t, c[j])} |-> c[k]]

----------------------------------------------------------------------------
(***************************************************************************)
(* SpecCache: callers and the sweep timer operating on one Cache           *)
(***************************************************************************)
Keys == {"k1", "k2"}
Values == {[v |-> 1], [v |-> 2]}

\* largest ttl (seconds) a caller passes to set
MaxTtl == 2

TtlChoices == {Given(n) : n \in 1..MaxTtl} \cup {Omitted}

CacheSteps == {500, 1000}

NoWrite == [data |-> Null, deadline |-> -1, live |-> FALSE]
NoRet == [op |-> "none", key |-> "", value |-> Null]

\* the cache before any call
CacheIdle ==
    /\ cache = EmptyMap
    /\ written = [k \in Keys |-> NoWrite]
    /\ ret = NoRet

\* the rate limiter before any request
RateIdle ==
    /\ options = [windowMs |-> 0, maxRequests |-> 0]
    /\ store = EmptyMap
    /\ pending = EmptyMap
    /\ reqLog = EmptyMap
    /\ unswept = EmptyMap

\* sanitizeString not called yet
SanIdle ==
    san = [input |-> << >>, called |-> FALSE, output |-> << >>]

\* no request dispatched yet
RouteIdle ==
    route = EmptyMap

\* no limiter made yet
LimIdle ==
    /\ limiters = EmptyMap
    /\ own = EmptyMap
    /\ lLog = << >>

\* no request parsed yet
KeyIdle ==
    /\ kQuery = << >>
    /\ kFilters = << >>
    /\ kKey = << >>
    /\ kGen = << >>
    /\ kFirst = [query |-> << >>, key |-> << >>, gen |-> << >>]

\* no request received yet
DashIdle ==
    /\ dataVersion = 0
    /\ faults = 0
    /\ req = EmptyMap
    /\ stores = << >>

\* generateActionableInsights not called yet
InsightIdle ==
    /\ iDb = << >>
    /\ iCall = [throwAt |-> "", built |-> << >>, threw |-> FALSE,
                returned |-> << >>, propagated |-> FALSE]

NoSeries == [fn |-> "", periods |-> 0, at |-> 0, result |-> << >>]

\* no repository call yet
SeriesIdle ==
    /\ sDb = << >>
    /\ sFilters = << >>
    /\ sCalls = << >>
    /\ sSeries = NoSeries

NoRanking == [called |-> FALSE, table |-> << >>, result |-> << >>]

\* getBranchRanking not called yet
RankIdle ==
    /\ rTable = << >>
    /\ rBranch = << >>
    /\ rFirst = NoRanking
    /\ rLast = NoRanking

InitCache ==
    /\ now = 0
    /\ CacheIdle
    /\ RateIdle
    /\ LimIdle
    /\ RouteIdle
    /\ SanIdle
    /\ KeyIdle
    /\ DashIdle
    /\ InsightIdle
    /\ SeriesIdle
    /\ RankIdle

\* the lifetime the caller asked for, in milliseconds
Lifetime(ttl) == IF ttl = Omitted THEN CacheTTL * MsPerSec ELSE ttl[1] * MsPerSec

CSet(k, v, ttl) ==
    /\ cache' = CacheSet(cache, k, v, ttl, now)
    /\ written' = [written EXCEPT ![k] =
                      [data |-> v, deadline |-> now + Lifetime(ttl), live |-> TRUE]]
    /\ ret' = [op |-> "set", key |-> k, value |-> Null]
    /\ UNCHANGED <<now, notCache>>

CGet(k) ==
    /\ cache' = CacheGet(cache, k, now).cache
    /\ ret' = [op |-> "get", key |-> k, value |-> CacheGet(cache, k, now).value]
    /\ UNCHANGED <<now, written, notCache>>

CHas(k) ==
    /\ cache' = CacheHas(cache, k, now).cache
    /\ ret' = [op |-> "has", key |-> k, value |-> [returned |-> CacheHas(cache, k, now).value]]
    /\ UNCHANGED <<now, written, notCache>>

CDelete(k) ==
    /\ cache' = CacheDelete(cache, k).cache
    /\ written' = [written EXCEPT ![k] = NoWrite]
    /\ ret' = [op |-> "delete", key |-> k, value |-> [returned |-> CacheDelete(cache, k).value]]
    /\ UNCHANGED <<now, notCache>>

\* Cache.clear
CClear ==
    /\ cache' = EmptyMap
    /\ written' = [k \in Keys |-> NoWrite]
    /\ ret' = [op |-> "clear", key |-> "", value |-> Null]
    /\ UNCHANGED <<now, notCache>>

\* Cache.size
CSize ==
    /\ ret' = [op |-> "size", key |-> "", value |-> [returned |-> Cardinality(DOMAIN cache)]]
    /\ UNCHANGED <<now, cache, written, notCache>>

\* the setInterval callback of the constructor
CSweep ==
    /\ cache' = CacheCleanup(cache, now)
    /\ ret' = [op |-> "cleanup", key |-> "", value |-> Null]
    /\ UNCHANGED <<now, written, notCache>>

CTick ==
    /\ Advance(CacheSteps)
    /\ ret' = NoRet
    /\ UNCHANGED <<cache, written, notCache>>

NextCache ==
    \/ \E k \in Keys, v \in Values, ttl \in TtlChoices : CSet(k, v, ttl)
    \/ \E k \in Keys : CGet(k)
    \/ \E k \in Keys : CHas(k)
    \/ \E k \in Keys : CDelete(k)
    \/ CClear
    \/ CSize
    \/ CSweep
    \/ CTick

SpecCache == InitCache /\ [][NextCache]_vars

\* the sweep timer keeps firing: setInterval(() => this.cleanup(), 60000)
SpecCacheLive == SpecCache /\ WF_vars(CSweep)

ExpiredEntry(k) == k \in DOMAIN cache /\ now > cache[k].expiresAt

\* C17: with the sweep timer running, every entry is eventually removed once
\* it has expired, also when its key is never read again; and a sweep at time
\* s leaves no entry with expiresAt < s and leaves every entry with
\* expiresAt >= s as it is.
C17_SweepLiveness ==
    /\ \A k \in Keys : ExpiredEntry(k) ~> ~ExpiredEntry(k)
    /\ [][ret'.op = "cleanup" =>
              \A k \in DOMAIN cache :
                  /\ cache[k].expiresAt < now => k \notin DOMAIN cache'
                  /\ cache[k].expiresAt >= now =>
                        k \in DOMAIN cache' /\ cache'[k] = cache[k]]_vars

\* C17 witness: a sweep has just run; an entry that had expired is gone and
\* an entry that expires at this very instant is still there
C17_Witness ==
    /\ ret.op = "cleanup"
    /\ \E k \in Keys :
          /\ written[k].live /\ now > written[k].deadline
          /\ k \notin DOMAIN cache
    /\ \E k \in DOMAIN cache : cache[k].expiresAt = now

----------------------------------------------------------------------------
(***************************************************************************)
(* SpecTtl: callers that pass every ttl from 0 up, or none                 *)
(***************************************************************************)
TtlOverrides == {Given(n) : n \in 0..MaxTtl} \cup {Omitted}

NextTtl ==
    \/ \E k \in Keys, v \in Values, ttl \in TtlOverrides : CSet(k, v, ttl)
    \/ \E k \in Keys : CGet(k)
    \/ CTick

SpecTtl == InitCache /\ [][NextTtl]_vars

\* C21: set(key, v, ttlSeconds) stores expiry = now + ttlSeconds * 1000 for
\* every supplied ttlSeconds >= 0, 0 included, which makes the entry absent
\* for every later read; the default of 300 s is used only when ttlSeconds is
\* omitted.
C21_TtlOverride ==
    /\ ret.op = "set" => cache[ret.key].expiresAt = written[ret.key].deadline
    /\ (ret.op = "get" /\ written[ret.key].live /\ now > written[ret.key].deadline) =>
          ret.value = Null

----------------------------------------------------------------------------
(***************************************************************************)
(* Rate limiter (rateLimit middleware and its module-level store)          *)
(***************************************************************************)
\* Math.ceil(a / b) for b > 0
CeilDiv(a, b) == -((-a) \div b)

\* key = `rateLimit:${req.path}:${clientId}`
RateKey(path, clientId) == <<"rateLimit", path, clientId>>

\* mutant of WindowExpired: the window also counts as expired at its reset instant
WindowExpiredAtReset(record, t) == record.resetTime <= t

\* record.resetTime < now
WindowExpired(record, t) == record.resetTime < t

\* mutant of Increment: the increment is lost
IncrementLost(record) == record

\* mutant of Increment: a request in an open window also moves its reset time
IncrementAndExtend(record) ==
    [record EXCEPT !.count = @ + 1, !.resetTime = @ + MsPerSec]

\* record.count++
Increment(record) == [record EXCEPT !.count = @ + 1]

\* mutant of LimitExceeded: the request that reaches the limit is rejected already
LimitReached(count, maxRequests) == count >= maxRequests

\* mutant of LimitExceeded: one request more than the limit is let through
LimitExceededByTwo(count, maxRequests) == count > maxRequests + 1

\* record.count > options.maxRequests
LimitExceeded(count, maxRequests) == count > maxRequests

NoHeader == [set |-> FALSE, value |-> 0]
Header(v) == [set |-> TRUE, value |-> v]

\* The middleware returned by rateLimit(config), run on one request at time t:
\* the store afterwards, whether next() was called or a 429 was sent, and the
\* response headers and timestamp (sendError) it wrote.
RateLimit(st, opts, key, t) ==
    IF key \notin DOMAIN st \/ WindowExpired(st[key], t)
    THEN [store |-> MapSet(st, key, [count |-> 1, resetTime |-> t + opts.windowMs]),
          outcome |-> "next", status |-> 0, opened |-> TRUE,
          retryAfter |-> NoHeader, remaining |-> NoHeader, reset |-> NoHeader,
          timestamp |-> NoHeader]
    ELSE LET record == Increment(st[key])
             st2 == MapSet(st, key, record)
         IN  IF LimitExceeded(record.count, opts.maxRequests)
             THEN [store |-> st2, outcome |-> "reject", status |-> 429,
                   opened |-> FALSE,
                   retryAfter |-> Header(CeilDiv(record.resetTime - t, MsPerSec)),
                   remaining |-> Header(0),
                   reset |-> Header(record.resetTime),
                   timestamp |-> Header(t)]
             ELSE [store |-> st2, outcome |-> "next", status |-> 0,
                   opened |-> FALSE,
                   retryAfter |-> NoHeader,
                   remaining |-> Header(opts.maxRequests - record.count),
                   reset |-> Header(record.resetTime),
                   timestamp |-> NoHeader]

\* mutant of RateCleanup: the sweep also deletes the records whose reset time
\* is the instant it runs
RateCleanupAtReset(st, t) ==
    [k \in {j \in DOMAIN st : ~(st[j].resetTime <= t)} |-> st[k]]

\* the setInterval callback of the module: delete records with resetTime < now
RateCleanup(st, t) ==
    [k \in {j \in DOMAIN st : ~(st[j].resetTime < t)} |-> st[k]]

----------------------------------------------------------------------------
(***************************************************************************)
(* SpecRate: clients sending requests through one limiter                  *)
(***************************************************************************)
Paths == {"/", "/filters"}
Clients == {"ip1"}
RKeys == {RateKey(p, c) : p \in Paths, c \in Clients}

\* largest maxRequests a limiter is configured with
MaxLimit == 2

\* requests sent in one run
MaxReqs == 4

\* requests that may wait for their middleware at the same time
MaxInflight == 2

WindowChoices == {1000}
RateSteps == {500}

RECURSIVE SumOver(_, _)
SumOver(f, S) ==
    IF S = {} THEN 0
    ELSE LET x == CHOOSE y \in S : TRUE IN f[x] + SumOver(f, S \ {x})

Handled == SumOver([k \in RKeys |-> Len(reqLog[k])], RKeys)
Inflight == SumOver(pending, RKeys)

InitRate ==
    /\ now = 0
    /\ CacheIdle
    /\ LimIdle
    /\ RouteIdle
    /\ SanIdle
    /\ KeyIdle
    /\ DashIdle
    /\ InsightIdle
    /\ SeriesIdle
    /\ RankIdle
    /\ options \in [windowMs : WindowChoices, maxRequests : 1..MaxLimit]
    /\ store = EmptyMap
    /\ pending = [k \in RKeys |-> 0]
    /\ reqLog = [k \in RKeys |-> << >>]
    /\ unswept = EmptyMap

\* a request for path p from client c reaches the server
RArrive(p, c) ==
    /\ Handled + Inflight < MaxReqs
    /\ Inflight < MaxInflight
    /\ pending' = [pending EXCEPT ![RateKey(p, c)] = @ + 1]
    /\ UNCHANGED <<now, options, store, reqLog, unswept, notRate>>

\* the middleware runs, start to end, on one of the waiting requests
RHandle(p, c) ==
    LET key == RateKey(p, c)
        r == RateLimit(store, options, key, now)
        u == RateLimit(unswept, options, key, now)
    IN  /\ pending[key] > 0
        /\ pending' = [pending EXCEPT ![key] = @ - 1]
        /\ store' = r.store
        /\ unswept' = u.store
        /\ reqLog' = [reqLog EXCEPT ![key] =
                         Append(@, [at |-> now, inflight |-> pending[key],
                                    opened |-> r.opened,
                                    outcome |-> r.outcome, status |-> r.status,
                                    retryAfter |-> r.retryAfter,
                                    remaining |-> r.remaining,
                                    reset |-> r.reset,
                                    timestamp |-> r.timestamp,
                                    swept |-> key \notin DOMAIN store
                                                /\ key \in DOMAIN unswept,
                                    unswept |-> [outcome |-> u.outcome,
                                                 retryAfter |-> u.retryAfter]])]
        /\ UNCHANGED <<now, options, notRate>>

RSweep ==
    /\ store' = RateCleanup(store, now)
    /\ UNCHANGED <<now, options, pending, reqLog, unswept, notRate>>

RTick ==
    /\ Advance(RateSteps)
    /\ UNCHANGED <<options, store, pending, reqLog, unswept, notRate>>

NextRate ==
    \/ \E p \in Paths, c \in Clients : RArrive(p, c)
    \/ \E p \in Paths, c \in Clients : RHandle(p, c)
    \/ RSweep
    \/ RTick

SpecRate == InitRate /\ [][NextRate]_vars

\* index of the request that opened the window request i of log belongs to
WindowStart(log, i) ==
    CHOOSE j \in 1..i : log[j].opened /\ \A m \in (j+1)..i : ~log[m].opened

\* position of request i within its window: 1 for the request that opened it
PosInWindow(log, i) == i - WindowStart(log, i) + 1

\* C2: with maxRequests = M >= 1, of the requests of one key that arrive
\* while one window is open exactly the first M are admitted (next is called)
\* and every later one is rejected with status 429.
C2_Windowing ==
    \A k \in RKeys : \A i \in 1..Len(reqLog[k]) :
        LET first == PosInWindow(reqLog[k], i) <= options.maxRequests
        IN  /\ first => reqLog[k][i].outcome = "next"
            /\ ~first => reqLog[k][i].outcome = "reject" /\ reqLog[k][i].status = 429

\* C2 witness: a window in which the request after the M-th was rejected with
\* 429 and a further one was handled
C2_Witness ==
    \E k \in RKeys :
        /\ Len(reqLog[k]) >= options.maxRequests + 2
        /\ PosInWindow(reqLog[k], Len(reqLog[k])) = options.maxRequests + 2
        /\ reqLog[k][Len(reqLog[k])].status = 429
        /\ reqLog[k][Len(reqLog[k]) - 1].status = 429

\* C3: every rejection carries a Retry-After that is strictly greater than 0
\* and equals reset-time minus now, in seconds, rounded up, at every time at
\* which a rejection can occur.
C3_RetryAfterPositive ==
    \A k \in RKeys : \A i \in 1..Len(reqLog[k]) :
        reqLog[k][i].status = 429 =>
            /\ reqLog[k][i].retryAfter.set
            /\ reqLog[k][i].retryAfter.value > 0
            /\ reqLog[k][i].retryAfter.value =
                   CeilDiv(reqLog[k][i].reset.value - reqLog[k][i].at, MsPerSec)

\* a request of key k is handled in this step
HandledNow(k) == Len(reqLog'[k]) = Len(reqLog[k]) + 1

\* C4: whenever a request arrives for a key whose record has
\* reset-time <= now (equality included), the record is treated as Fresh: the
\* request is admitted, count becomes 1 and a new window with
\* reset-time = now + windowMs starts.
C4_WindowExpiry ==
    [][\A k \in RKeys :
          (HandledNow(k) /\ k \in DOMAIN store /\ store[k].resetTime <= now) =>
              /\ store'[k] = [count |-> 1, resetTime |-> now + options.windowMs]
              /\ reqLog'[k][Len(reqLog'[k])].outcome = "next"]_vars

\* requests of key k admitted at a time in [s, s + windowMs)
AdmittedWithin(k, s) ==
    Cardinality({i \in 1..Len(reqLog[k]) :
                    /\ reqLog[k][i].outcome = "next"
                    /\ s <= reqLog[k][i].at
                    /\ reqLog[k][i].at < s + options.windowMs})

\* C5: for every key and every interval of length windowMs, wherever it
\* starts, the number of admitted requests never exceeds maxRequests.  (The
\* count over an interval is largest for an interval that starts at the time
\* of a request, so those are the intervals examined.)
C5_RollingCap ==
    \A k \in RKeys : \A i \in 1..Len(reqLog[k]) :
        AdmittedWithin(k, reqLog[k][i].at) <= options.maxRequests

\* C5 as amended: for every key and every interval of length windowMs the
\* number of admitted requests never exceeds 2 * maxRequests - 1: the interval
\* can hold the tail of one fixed window and the head of the next.
C5_StraddleCap ==
    \A k \in RKeys : \A i \in 1..Len(reqLog[k]) :
        AdmittedWithin(k, reqLog[k][i].at) <= 2 * options.maxRequests - 1

\* C5 witness: an interval of length windowMs in which more than maxRequests
\* requests, namely 2 * maxRequests - 1, were admitted
C5_Witness ==
    \E k \in RKeys : \E i \in 1..Len(reqLog[k]) :
        /\ AdmittedWithin(k, reqLog[k][i].at) = 2 * options.maxRequests - 1
        /\ AdmittedWithin(k, reqLog[k][i].at) > options.maxRequests

\* the requests of the window that request number Len(log) belongs to
LastWindow(log) == WindowStart(log, Len(log))..Len(log)

Min(a, b) == IF a <= b THEN a ELSE b

\* C8: when N requests of one key are handled while one window is open, in
\* whatever order the waiting requests are picked, no increment is lost: the
\* record's count equals N and exactly min(N, maxRequests) of them are admitted.
C8_NoLostIncrement ==
    \A k \in RKeys :
        Len(reqLog[k]) > 0 =>
            LET win == LastWindow(reqLog[k])
                admitted == {i \in win : reqLog[k][i].outcome = "next"}
            IN  /\ k \in DOMAIN store => store[k].count = Cardinality(win)
                /\ Cardinality(admitted) = Min(Cardinality(win), options.maxRequests)

\* C8 witness: three requests of one key handled in the same millisecond of
\* one window, two of them waiting at the same time, and the count is 3 with
\* a limit below 3
C8_Witness ==
    \E k \in RKeys :
        /\ Len(reqLog[k]) > 0
        /\ k \in DOMAIN store
        /\ store[k].count = 3
        /\ Cardinality(LastWindow(reqLog[k])) = 3
        /\ \A i \in LastWindow(reqLog[k]) : reqLog[k][i].at = now
        /\ \E i \in LastWindow(reqLog[k]) : reqLog[k][i].inflight >= 2

\* C26: a client that is rejected with Retry-After = r seconds and sends its
\* next request for the same key exactly r * 1000 ms after the rejected one,
\* with no other request for that key in between, is admitted.
C26_RetryAfterSufficient ==
    \A k \in RKeys : \A i \in 1..(Len(reqLog[k]) - 1) :
        (/\ reqLog[k][i].status = 429
         /\ reqLog[k][i + 1].at =
                reqLog[k][i].at + reqLog[k][i].retryAfter.value * MsPerSec) =>
            reqLog[k][i + 1].outcome = "next"

\* C28: while a window is open, no request, admitted or rejected, changes
\* the record's resetTime, and count equals the number of requests received
\* for the key since the window opened (count >= 1 always); hence a client
\* that keeps sending requests while blocked does not postpone the moment it
\* is admitted again.
C28_FixedWindow ==
    /\ [](\A k \in DOMAIN store :
             /\ store[k].count >= 1
             /\ store[k].count = Cardinality(LastWindow(reqLog[k]))
             /\ store[k].resetTime =
                    reqLog[k][WindowStart(reqLog[k], Len(reqLog[k]))].at
                        + options.windowMs)
    /\ [][\A k \in RKeys :
              (HandledNow(k) /\ k \in DOMAIN store /\ now <= store[k].resetTime) =>
                  /\ store'[k].resetTime = store[k].resetTime
                  /\ store'[k].count = store[k].count + 1]_vars

\* C28 witness: a client was rejected twice in one window, the second time
\* later than the first, and was admitted again 500 ms after the reset time
\* the first rejection announced
C28_Witness ==
    \E k \in RKeys :
        /\ Len(reqLog[k]) >= 4
        /\ reqLog[k][2].status = 429
        /\ reqLog[k][3].status = 429
        /\ reqLog[k][3].at > reqLog[k][2].at
        /\ reqLog[k][4].opened
        /\ reqLog[k][4].at = reqLog[k][2].reset.value + 500

\* C18: the sweep deletes only records whose reset time has passed, never a
\* record whose window is still open, so for any sequence of requests the
\* admit/reject outcomes and the Retry-After values are those of a run in
\* which no sweep happens.
C18_SweepTransparent ==
    /\ [](\A k \in RKeys : \A i \in 1..Len(reqLog[k]) :
             /\ reqLog[k][i].outcome = reqLog[k][i].unswept.outcome
             /\ reqLog[k][i].retryAfter = reqLog[k][i].unswept.retryAfter)
    /\ [][\A k \in (DOMAIN store) \ (DOMAIN store') :
              store[k].resetTime < now]_vars

\* C18 witness: a request whose record the sweep had deleted opened a new
\* window, and a later request of that key was rejected with Retry-After
C18_Witness ==
    \E k \in RKeys : \E i, j \in 1..Len(reqLog[k]) :
        /\ i < j
        /\ reqLog[k][i].swept
        /\ reqLog[k][i].outcome = "next"
        /\ reqLog[k][j].outcome = "reject"
        /\ reqLog[k][j].retryAfter.set

----------------------------------------------------------------------------
(***************************************************************************)
(* SpecLimiters: the three exported limiters serving the same route        *)
(***************************************************************************)
\* defaultConfig
defaultConfig == [windowMs |-> 60 * 1000, maxRequests |-> 60]

\* rateLimit(config): options = { ...defaultConfig, ...config }; the middleware
\* returned closes over the options only, the store is the module's
rateLimit(config) ==
    [f \in DOMAIN defaultConfig |->
        IF f \in DOMAIN config THEN config[f] ELSE defaultConfig[f]]

strictRateLimit == rateLimit([windowMs |-> 15 * 60 * 1000, maxRequests |-> 5])
apiRateLimit == rateLimit([windowMs |-> 60 * 1000, maxRequests |-> 100])
publicRateLimit == rateLimit([windowMs |-> 60 * 1000, maxRequests |-> 300])

Instances == {"strictRateLimit", "apiRateLimit", "publicRateLimit"}

\* requests handled in one run
MaxLimReqs == 6

\* the clock's horizon and steps: past one window of the api limiter
LimMaxTime == 100000
LimSteps == {30001}

InitLimiters ==
    /\ now = 0
    /\ CacheIdle
    /\ RateIdle
    /\ RouteIdle
    /\ SanIdle
    /\ KeyIdle
    /\ DashIdle
    /\ InsightIdle
    /\ SeriesIdle
    /\ RankIdle
    /\ limiters = [i \in Instances |->
                      CASE i = "strictRateLimit" -> strictRateLimit
                        [] i = "apiRateLimit" -> apiRateLimit
                        [] OTHER -> publicRateLimit]
    /\ own = [i \in Instances |-> EmptyMap]
    /\ lLog = << >>

\* the count and reset time a limiter leaves for the key it has just handled
RecordOf(r, key) ==
    [outcome |-> r.outcome, count |-> r.store[key].count,
     resetTime |-> r.store[key].resetTime]

\* limiter i runs, start to end, on a request for path p from client c
LHandle(i, p, c) ==
    LET key == RateKey(p, c)
        r == RateLimit(store, limiters[i], key, now)
        o == RateLimit(own[i], limiters[i], key, now)
    IN  /\ Len(lLog) < MaxLimReqs
        /\ store' = r.store
        /\ own' = [own EXCEPT ![i] = o.store]
        /\ lLog' = Append(lLog, [limiter |-> i, key |-> key, at |-> now,
                                 shared |-> RecordOf(r, key),
                                 alone |-> RecordOf(o, key)])
        /\ UNCHANGED <<now, limiters, notLimiters>>

\* the module's sweep
LSweep ==
    /\ store' = RateCleanup(store, now)
    /\ own' = [i \in Instances |-> RateCleanup(own[i], now)]
    /\ UNCHANGED <<now, limiters, lLog, notLimiters>>

LTick ==
    /\ \E d \in LimSteps : now + d <= LimMaxTime /\ now' = now + d
    /\ UNCHANGED <<store, limiters, own, lLog, notLimiters>>

NextLimiters ==
    \/ \E i \in Instances, c \in Clients : LHandle(i, "/", c)
    \/ LSweep
    \/ LTick

SpecLimiters == InitLimiters /\ [][NextLimiters]_vars

\* C19: requests processed by one limiter never change the count, the reset
\* time or the admit/reject decision another limiter produces for the same
\* client and path: each limiter answers as it would with a store of its own.
C19_LimitersIndependent ==
    \A n \in 1..Len(lLog) : lLog[n].shared = lLog[n].alone

----------------------------------------------------------------------------
(***************************************************************************)
(* Filter normaliser and cache key.  A string is a sequence of characters; *)
(* an object is the sequence of its <<name, value>> properties in          *)
(* insertion order, which is the order Object.keys and JSON.stringify      *)
(* follow.  The value of dateRange is kept as one word.                    *)
(***************************************************************************)
ValidDateRanges == {"last7days", "last30days", "last90days", "lastYear", "all"}

StringFields == {"branch", "agent", "product", "segment", "campaign"}

\* String.prototype.substring(0, 100)
MaxStringLength == 100

Whitespace == {" "}
Dangerous == {"<", ">", "\"", "'"}

HasParam(obj, name) == \E i \in 1..Len(obj) : obj[i][1] = name
Param(obj, name) == obj[CHOOSE i \in 1..Len(obj) : obj[i][1] = name][2]

\* String.prototype.trim
RECURSIVE TrimStart(_)
TrimStart(str) ==
    IF str # << >> /\ Head(str) \in Whitespace THEN TrimStart(Tail(str)) ELSE str

RECURSIVE TrimEnd(_)
TrimEnd(str) ==
    IF str # << >> /\ str[Len(str)] \in Whitespace
    THEN TrimEnd(SubSeq(str, 1, Len(str) - 1))
    ELSE str

Trim(str) == TrimEnd(TrimStart(str))

IsSafe(ch) == ch \notin Dangerous

\* sanitizeString: trim, remove < > " ', keep the first 100 characters
sanitizeString(input) ==
    LET stripped == SelectSeq(Trim(input), IsSafe)
    IN  SubSeq(stripped, 1, Min(Len(stripped), MaxStringLength))

\* one `if (query.f ...) filters.f = ...` statement of parseFilters: the
\* property it appends to filters, if any
ParsedField(query, f) ==
    IF ~HasParam(query, f) THEN << >>
    ELSE LET v == Param(query, f)
         IN  IF f = "dateRange"
             THEN IF v \in ValidDateRanges THEN << <<f, v>> >> ELSE << >>
             ELSE IF v # << >> THEN << <<f, sanitizeString(v)>> >> ELSE << >>

\* parseFilters: dateRange, branch, agent, product, segment, campaign are
\* tested and assigned in this order, whatever the order in the query
parseFilters(query) ==
    ParsedField(query, "dateRange") \o ParsedField(query, "branch")
        \o ParsedField(query, "agent") \o ParsedField(query, "product")
        \o ParsedField(query, "segment") \o ParsedField(query, "campaign")

\* getDefaultFilters
getDefaultFilters == << <<"dateRange", "last30days">> >>

\* getDashboard: Object.keys(req.query).length > 0 ? parseFilters : defaults
RequestFilters(query) ==
    IF Len(query) > 0 THEN parseFilters(query) ELSE getDefaultFilters

\* JSON.stringify of a string: quotes around it, " and \ escaped
RECURSIVE JsonChars(_)
JsonChars(str) ==
    IF str = << >> THEN << >>
    ELSE (IF Head(str) \in {"\"", "\\"} THEN <<"\\", Head(str)>> ELSE <<Head(str)>>)
            \o JsonChars(Tail(str))

JsonString(name, v) ==
    IF name = "dateRange" THEN <<"\"", v, "\"">>
    ELSE <<"\"">> \o JsonChars(v) \o <<"\"">>

\* JSON.stringify of an object: its properties in insertion order
RECURSIVE JsonMembers(_)
JsonMembers(obj) ==
    IF obj = << >> THEN << >>
    ELSE <<"\"", Head(obj)[1], "\"", ":">> \o JsonString(Head(obj)[1], Head(obj)[2])
            \o (IF Tail(obj) = << >> THEN << >> ELSE <<",">> \o JsonMembers(Tail(obj)))

JsonStringify(obj) == <<"{">> \o JsonMembers(obj) \o <<"}">>

\* getDashboardData: cacheKey = `dashboard:${JSON.stringify(filters)}`
DashboardCacheKey(filters) == <<"dashboard", ":">> \o JsonStringify(filters)

\* Array.prototype.sort() on the property names: the field names in
\* lexicographic order
SortedNames == <<"agent", "branch", "campaign", "dateRange", "product", "segment">>

\* `${key}=${params[key]}`
KeyValue(obj, name) ==
    <<name, "=">> \o (IF name = "dateRange" THEN <<Param(obj, name)>> ELSE Param(obj, name))

RECURSIVE JoinSorted(_, _)
JoinSorted(obj, names) ==
    IF names = << >> THEN << >>
    ELSE KeyValue(obj, Head(names))
            \o (IF Tail(names) = << >> THEN << >> ELSE <<"&">> \o JoinSorted(obj, Tail(names)))

\* Cache.generateKey(prefix, params)
generateKey(prefix, params) ==
    LET HasName(n) == HasParam(params, n)
    IN  <<prefix, ":">> \o JoinSorted(params, SelectSeq(SortedNames, HasName))

----------------------------------------------------------------------------
(***************************************************************************)
(* SpecKey: one client sending the same parameters in different orders     *)
(***************************************************************************)
\* parameters in one request
MaxParams == 3

DateRangeInputs == {"last7days", "all", "thisWeek"}
StringInputs == {<<"a">>, <<" ", "b", "<">>}

QueryParams ==
    {<<"dateRange", v>> : v \in DateRangeInputs}
        \cup {<<f, v>> : f \in StringFields, v \in StringInputs}

\* req.query objects: up to MaxParams parameters with distinct names
Queries ==
    UNION {{q \in [1..n -> QueryParams] :
               \A i, j \in 1..n : i # j => q[i][1] # q[j][1]} : n \in 0..MaxParams}

\* the same parameters in any order
Reorderings(q) ==
    {r \in [1..Len(q) -> {q[i] : i \in 1..Len(q)}] :
        \A i \in 1..Len(q) : \E j \in 1..Len(q) : r[j] = q[i]}

InitKey ==
    /\ now = 0
    /\ CacheIdle
    /\ RateIdle
    /\ LimIdle
    /\ RouteIdle
    /\ SanIdle
    /\ DashIdle
    /\ InsightIdle
    /\ SeriesIdle
    /\ RankIdle
    /\ kQuery \in Queries
    /\ kFilters = RequestFilters(kQuery)
    /\ kKey = DashboardCacheKey(kFilters)
    /\ kGen = generateKey("dashboard", kFilters)
    /\ kFirst = [query |-> kQuery, key |-> kKey, gen |-> kGen]

\* the client sends the same parameters again, in some order
KRequest ==
    /\ \E q \in Reorderings(kQuery) :
          /\ kQuery' = q
          /\ kFilters' = RequestFilters(q)
          /\ kKey' = DashboardCacheKey(RequestFilters(q))
          /\ kGen' = generateKey("dashboard", RequestFilters(q))
    /\ UNCHANGED <<now, kFirst, notKey>>

\* a caller of the service passes getDashboardData a filter object that
\* holds the same fields, assigned in another order
KCall ==
    /\ \E f \in Reorderings(kFilters) :
          /\ kFilters' = f
          /\ kKey' = DashboardCacheKey(f)
          /\ kGen' = generateKey("dashboard", f)
    /\ UNCHANGED <<now, kQuery, kFirst, notKey>>

NextKey == KRequest \/ KCall

SpecKey == InitKey /\ [][NextKey]_vars

\* C6: for every filter and every permutation of the insertion order of its
\* fields the cache key derived for the dashboard result is identical, so
\* logically identical filters always address the same cache entry.
C6_KeyInvariance == kKey = kFirst.key

\* Cache.generateKey, which getDashboardData does not use, is invariant under
\* the insertion order
GenerateKeyInvariance == kGen = kFirst.gen

\* requests that differ only in the order of their query parameters get the
\* same filter object
ParsedOrderFixed == kFilters = RequestFilters(kQuery) => kKey = kFirst.key

----------------------------------------------------------------------------
(***************************************************************************)
(* SpecInject: two requests whose values may hold the delimiters of a key  *)
(***************************************************************************)
\* a string as JavaScript holds it: the characters of its parts, joined
RECURSIVE Text(_)
Text(seq) == IF seq = << >> THEN "" ELSE Head(seq) \o Text(Tail(seq))

\* values of a string filter: two plain ones, and one that reads as the end
\* of one parameter and the start of the next
InjectValues ==
    {<<"x">>, <<"y">>, <<"x", "&", "b", "r", "a", "n", "c", "h", "=", "y">>}

InjectParams == {<<f, v>> : f \in {"agent", "branch"}, v \in InjectValues}

\* the most parameters a request of this specification carries
MaxInjectParams == 2

\* req.query objects: parameters with distinct names
InjectQueries ==
    UNION {{q \in [1..n -> InjectParams] :
               \A i, j \in 1..n : i # j => q[i][1] # q[j][1]} : n \in 0..MaxInjectParams}

InitInject ==
    /\ now = 0
    /\ CacheIdle
    /\ RateIdle
    /\ LimIdle
    /\ RouteIdle
    /\ SanIdle
    /\ DashIdle
    /\ InsightIdle
    /\ SeriesIdle
    /\ RankIdle
    /\ kQuery \in InjectQueries
    /\ kFilters = RequestFilters(kQuery)
    /\ kKey = DashboardCacheKey(kFilters)
    /\ kGen = generateKey("dashboard", kFilters)
    /\ kFirst = [query |-> kQuery, key |-> kKey, gen |-> kGen]

\* the client sends a request with other parameters
KOther ==
    /\ \E q \in InjectQueries :
          /\ kQuery' = q
          /\ kFilters' = RequestFilters(q)
          /\ kKey' = DashboardCacheKey(RequestFilters(q))
          /\ kGen' = generateKey("dashboard", RequestFilters(q))
    /\ UNCHANGED <<now, kFirst, notKey>>

SpecInject == InitInject /\ [][KOther]_vars

\* the two filter objects hold the same fields with the same values
SameFilter(f, g) == {f[i] : i \in 1..Len(f)} = {g[i] : i \in 1..Len(g)}

JsonKeyInjective ==
    ~SameFilter(kFilters, RequestFilters(kFirst.query)) =>
        Text(kKey) # Text(kFirst.key)

----------------------------------------------------------------------------
(***************************************************************************)
(* SpecSanitize: sanitizeString applied to short and to long strings       *)
(***************************************************************************)
\* characters of the inputs: white space, two of the stripped ones, a letter
SanChars == {" ", "<", "'", "a"}

\* length of the part of an input that varies
MaxInputLen == 3

\* letters put before that part: none, or as many as bring it to the cap
SanPads == {0, MaxStringLength - 2, MaxStringLength - 1}

SanInputs ==
    {[i \in 1..n |-> "a"] \o tail :
        n \in SanPads, tail \in UNION {[1..m -> SanChars] : m \in 0..MaxInputLen}}

notSanitize == <<routeVars, cacheVars, rateVars, limVars, keyVars, dashVars, insVars,
                 seriesVars, rankVars>>

InitSanitize ==
    /\ now = 0
    /\ CacheIdle
    /\ RateIdle
    /\ LimIdle
    /\ RouteIdle
    /\ KeyIdle
    /\ DashIdle
    /\ InsightIdle
    /\ SeriesIdle
    /\ RankIdle
    /\ san \in [input : SanInputs, called : {FALSE}, output : {<< >>}]

\* sanitizeString(input)
SanCall ==
    /\ ~san.called
    /\ san' = [san EXCEPT !.called = TRUE, !.output = sanitizeString(san.input)]
    /\ UNCHANGED <<now, notSanitize>>

SpecSanitize == InitSanitize /\ [][SanCall]_vars

\* C22: for every input string, sanitizeString returns a value that has no
\* leading or trailing whitespace, has at most 100 characters and contains
\* none of the characters < > " '.
C22_SanitizedCanonical ==
    san.called =>
        /\ san.output = Trim(san.output)
        /\ Len(san.output) <= MaxStringLength
        /\ \A i \in 1..Len(san.output) : san.output[i] \notin Dangerous

\* The part of it the code keeps: the cap and the stripped characters.
SanitizedCappedAndStripped ==
    san.called =>
        /\ Len(san.output) <= MaxStringLength
        /\ \A i \in 1..Len(san.output) : san.output[i] \notin Dangerous

----------------------------------------------------------------------------
(***************************************************************************)
(* Dashboard request pipeline: getDashboard -> getDashboardData and        *)
(* getFilters.  The repository functions are async, so a handler gives up  *)
(* control at every query it awaits and nowhere else; between cache.get    *)
(* and the first query, and between the last query and cache.set, it runs  *)
(* without interruption.                                                   *)
(***************************************************************************)
\* cache.set(cacheKey, dashboardData, 300)
DashboardTTL == 300

\* cache.set(cacheKey, filterOptions, 600)
FilterOptionsTTL == 600

\* const cacheKey = 'filter:options'
FilterOptionsKey == <<"filter", ":", "options">>

Stage(name, guard) == [name |-> name, guard |-> guard]

\* the queries getDashboardData issues itself, in order: calculateKPIs (the
\* leads of the period and of the previous period) and the six data series
DirectStages ==
    << Stage("calculateKPIs.getLeads", "none"),
       Stage("calculateKPIs.getLeads.previous", "none"),
       Stage("getLeadsByStatus", "none"),
       Stage("getLeadsByBranchOverTime", "none"),
       Stage("getRevenueByBranchOverTime", "none"),
       Stage("getAgentPerformance", "none"),
       Stage("getTopPerformingAgents", "none"),
       Stage("getBranchAgentRanking", "none") >>

\* the queries issued inside the insight and ranking computations that
\* getDashboardData calls next; guard names the computation whose try block
\* encloses the query
GuardedStages ==
    << Stage("getCallingPatternAnalysis", "generateActionableInsights"),
       Stage("getLeads", "generateActionableInsights"),
       Stage("getAllBranchesPerformance", "getBranchRanking"),
       Stage("getAllBranchesPerformance", "getCountryRanking"),
       Stage("getAllBranchesPerformance", "getCountryRankingTable") >>

\* getFilters awaits one query
FilterStages == << Stage("getFilterOptions", "none") >>

Kinds == {"dashboard", "filters"}

Pipeline(kind) ==
    IF kind = "dashboard" THEN DirectStages \o GuardedStages ELSE FilterStages

TTLOf(kind) == IF kind = "dashboard" THEN DashboardTTL ELSE FilterOptionsTTL

\* whether an error thrown by the query of this stage is caught by the
\* try/catch of the computation that issued it
Caught(stage) == stage.guard # "none"

\* the first stage after stage s that lies outside the computation of stage s
AfterGuard(kind, s) ==
    LET later == {i \in (s + 1)..Len(Pipeline(kind)) :
                     Pipeline(kind)[i].guard # Pipeline(kind)[s].guard}
    IN  IF later = {} THEN Len(Pipeline(kind)) + 1
        ELSE CHOOSE i \in later : \A j \in later : i <= j

\* mutant of StoreResult: an entry that is already there is not replaced
StoreResultIfAbsent(c, key, data, kind, t) ==
    IF key \in DOMAIN c THEN c ELSE CacheSet(c, key, data, Given(TTLOf(kind)), t)

\* cache.set(cacheKey, dashboardData, 300) / cache.set(cacheKey, filterOptions, 600)
StoreResult(c, key, data, kind, t) == CacheSet(c, key, data, Given(TTLOf(kind)), t)

----------------------------------------------------------------------------
(***************************************************************************)
(* SpecDash: two requests, changing data and failing queries               *)
(***************************************************************************)
Reqs == {"r1", "r2"}

\* changes made to the lead data in one run
MaxVersion == 1

\* queries that fail in one run
MaxFaults == 1

\* horizon of the clock in SpecDash: past the expiry of a dashboard entry
DashMaxTime == 450000

\* the clock moves by half the lifetime of a dashboard entry
DashSteps == {150000}

\* the query string of the dashboard requests: no filter
DashQueries == {<< >>}

NoRequest ==
    [pc |-> "idle", kind |-> "", key |-> << >>, stage |-> 0, lo |-> -1, hi |-> -1,
     readAt |-> -1, fallbacks |-> {}, failed |-> {}, missed |-> FALSE, status |-> 0, body |-> Null]

InitDash ==
    /\ now = 0
    /\ cache = EmptyMap
    /\ written = [k \in Keys |-> NoWrite]
    /\ ret = NoRet
    /\ RateIdle
    /\ LimIdle
    /\ RouteIdle
    /\ SanIdle
    /\ KeyIdle
    /\ InsightIdle
    /\ SeriesIdle
    /\ RankIdle
    /\ dataVersion = 0
    /\ faults = 0
    /\ req = [r \in Reqs |-> NoRequest]
    /\ stores = << >>

\* The handler of r took up to stage s - 1 and carries rec: it issues the
\* next query, or, with none left, composes the result, stores it and sends it.
Resume(r, rec, s) ==
    IF s <= Len(Pipeline(rec.kind))
    THEN /\ req' = [req EXCEPT ![r] = [rec EXCEPT !.stage = s]]
         /\ UNCHANGED <<cache, stores>>
    ELSE LET data == [lo |-> rec.lo, hi |-> rec.hi, readAt |-> rec.readAt,
                      fallbacks |-> rec.fallbacks]
         IN  /\ cache' = StoreResult(cache, rec.key, data, rec.kind, now)
             /\ stores' = Append(stores, [by |-> r, key |-> rec.key, at |-> now,
                                          data |-> data,
                                          ttl |-> TTLOf(rec.kind)])
             /\ req' = [req EXCEPT ![r] =
                           [rec EXCEPT !.pc = "done", !.stage = s,
                                       !.status = 200, !.body = data]]

\* getDashboard / getFilters from the start to the first await: the filters,
\* the cache key, cache.get and, on a hit, the response
DStart(r, kind, q) ==
    LET key == IF kind = "dashboard"
               THEN DashboardCacheKey(RequestFilters(q))
               ELSE FilterOptionsKey
        g == CacheGet(cache, key, now)
    IN  /\ req[r].pc = "idle"
        /\ cache' = g.cache
        /\ req' = [req EXCEPT ![r] =
                      IF g.value # Null
                      THEN [@ EXCEPT !.pc = "done", !.kind = kind, !.key = key,
                                     !.status = 200, !.body = g.value]
                      ELSE [@ EXCEPT !.pc = "query", !.kind = kind, !.key = key,
                                     !.stage = 1, !.missed = TRUE]]
        /\ UNCHANGED <<now, dataVersion, faults, stores, notDash>>

\* the query r waits for resolves with the data as they are now
DQueryOk(r) ==
    /\ req[r].pc = "query"
    /\ Resume(r, [req[r] EXCEPT !.lo = IF @ = -1 THEN dataVersion ELSE @,
                                !.hi = dataVersion,
                                !.readAt = IF @ = -1 THEN now ELSE @],
              req[r].stage + 1)
    /\ UNCHANGED <<now, dataVersion, faults, notDash>>

\* the query r waits for rejects: the repository logs and rethrows; the
\* computation that issued it returns its default, or else the error reaches
\* the catch of the controller, which sends 500
DQueryFail(r) ==
    LET stage == Pipeline(req[r].kind)[req[r].stage]
        rec == [req[r] EXCEPT !.failed = @ \cup {stage}]
    IN  /\ req[r].pc = "query"
        /\ faults < MaxFaults
        /\ faults' = faults + 1
        /\ IF Caught(stage)
           THEN Resume(r, [rec EXCEPT !.fallbacks = @ \cup {stage.guard}],
                       AfterGuard(req[r].kind, req[r].stage))
           ELSE /\ req' = [req EXCEPT ![r] =
                              [rec EXCEPT !.pc = "done", !.status = 500]]
                /\ UNCHANGED <<cache, stores>>
        /\ UNCHANGED <<now, dataVersion, notDash>>

\* the lead data change
DataChange ==
    /\ dataVersion < MaxVersion
    /\ dataVersion' = dataVersion + 1
    /\ UNCHANGED <<now, cache, faults, req, stores, notDash>>

\* the setInterval callback of the cache
DSweep ==
    /\ cache' = CacheCleanup(cache, now)
    /\ UNCHANGED <<now, dataVersion, faults, req, stores, notDash>>

DTick ==
    /\ \E d \in DashSteps : now + d <= DashMaxTime /\ now' = now + d
    /\ UNCHANGED <<cache, dataVersion, faults, req, stores, notDash>>

NextDash ==
    \/ \E r \in Reqs, kind \in Kinds, q \in DashQueries : DStart(r, kind, q)
    \/ \E r \in Reqs : DQueryOk(r)
    \/ \E r \in Reqs : DQueryFail(r)
    \/ DataChange
    \/ DSweep
    \/ DTick

SpecDash == InitDash /\ [][NextDash]_vars

Done(r) == req[r].pc = "done"

\* the cache.set calls made for key k, oldest first
StoresOf(k) == SelectSeq(stores, LAMBDA s : s.key = k)

\* r missed the cache, recomputed and stored
Recomputed(r) == Done(r) /\ req[r].missed /\ req[r].status = 200

QueryFailed(r) == req[r].failed # {}

\* a query that getDashboardData or getFilters issued itself failed
DirectQueryFailed(r) == \E s \in req[r].failed : s.guard = "none"

DirectFailureSurfaced ==
    \A r \in Reqs :
        Done(r) =>
            /\ DirectQueryFailed(r) <=> req[r].status = 500
            /\ DirectQueryFailed(r) => req[r].body = Null
            /\ ~DirectQueryFailed(r) => req[r].status = 200
            /\ (req[r].missed /\ req[r].status = 200) =>
                  req[r].body.fallbacks = {s.guard : s \in req[r].failed}

DirectFailureLeavesCache ==
    \A r \in Reqs :
        (Done(r) /\ req[r].missed) =>
            (DirectQueryFailed(r) <=> \A n \in 1..Len(stores) : stores[n].by # r)

\* r is answered in this step with a dashboard
Served(r) ==
    /\ req[r].pc # "done"
    /\ req'[r].pc = "done"
    /\ req'[r].kind = "dashboard"
    /\ req'[r].status = 200

\* the earliest time at which data of the body r is answered with were read;
\* a body none of whose queries resolved holds defaults only
Reflects(r) == req'[r].body.readAt

\* C20: every dashboard response served at time t, from the cache or freshly
\* computed, reflects lead data read no earlier than t - 300 seconds, for
\* every interleaving of requests and every duration of the computation.
C20_BoundedStaleness ==
    [][\A r \in Reqs :
          (Served(r) /\ Reflects(r) # -1) =>
              Reflects(r) >= now - DashboardTTL * MsPerSec]_vars

\* What the cache does bound: a dashboard served from the cache was stored
\* no earlier than 300 seconds before.
StoredWithinTTL ==
    [][\A r \in Reqs :
          (Served(r) /\ ~req'[r].missed) =>
              \E n \in 1..Len(stores) :
                  /\ stores[n].key = req'[r].key
                  /\ stores[n].data = req'[r].body
                  /\ stores[n].at >= now - DashboardTTL * MsPerSec]_vars

----------------------------------------------------------------------------
(***************************************************************************)
(* Insight generator (generateActionableInsights).  A lead is the hour it  *)
(* was contacted at (-1: not contacted), whether it was sold, and the days *)
(* from creation to contact.  Rates are kept in hundredths of a percent.   *)
(***************************************************************************)
Max(a, b) == IF a >= b THEN a ELSE b

\* Number.prototype.toFixed(0) of a / b, for a >= 0 and b > 0
Round(a, b) == (2 * a + b) \div (2 * b)

\* the value of x / 0 for x > 0; it is larger than every number
Infinity == 1000000000

NotContacted == -1

RECURSIVE SumSeq(_)
SumSeq(seq) == IF seq = << >> THEN 0 ELSE Head(seq) + SumSeq(Tail(seq))

\* getCallingPatternAnalysis: hourlyStats, one entry per hour with a contacted
\* lead, sorted by hour; successRate = Number(((sold / total) * 100).toFixed(2))
HourlyStat(db, h) ==
    LET atHour(l) == l.hour = h
        soldAtHour(l) == l.hour = h /\ l.sold
    IN  [hour |-> h, totalCalls |-> Len(SelectSeq(db, atHour)),
         successfulCalls |-> Len(SelectSeq(db, soldAtHour)),
         successRate |-> Round(10000 * Len(SelectSeq(db, soldAtHour)), Len(SelectSeq(db, atHour)))]

RECURSIVE StatsFrom(_, _)
StatsFrom(db, hours) ==
    IF hours = {} THEN << >>
    ELSE LET h == CHOOSE x \in hours : \A y \in hours : x <= y
         IN  <<HourlyStat(db, h)>> \o StatsFrom(db, hours \ {h})

hourlyStats(db) ==
    StatsFrom(db, {db[i].hour : i \in 1..Len(db)} \ {NotContacted})

\* hourlyStats.reduce((max, current) => current.successRate > max.successRate
\* ? current : max): the earliest hour with the highest rate
RECURSIVE BestOf(_, _)
BestOf(max, stats) ==
    IF stats = << >> THEN max
    ELSE BestOf(IF Head(stats).successRate > max.successRate THEN Head(stats) ELSE max,
                Tail(stats))

bestCallingHour(db) ==
    IF Len(hourlyStats(db)) > 0
    THEN LET best == BestOf(Head(hourlyStats(db)), Tail(hourlyStats(db)))
         IN  [hour |-> best.hour, successRate |-> best.successRate]
    ELSE [hour |-> 9, successRate |-> 0]

\* one ActionableInsight; percent, startHour and endHour are the numbers its
\* description quotes (0, 0: the text names no calling window)
Insight(id, improvement, percent, startHour, endHour, metric, priority) ==
    [id |-> id, improvement |-> improvement, percent |-> percent,
     startHour |-> startHour, endHour |-> endHour,
     metric |-> metric, priority |-> priority]

\* "... by 2% by calling your clients between 8:30 am - 12:00 pm."
DefaultTat == Insight("improve-tat", 2, 2, 8, 12, "turnAroundTime", "high")
DefaultConversion == Insight("improve-conversion", 2, 2, 8, 12, "conversionRate", "high")

\* the array the catch block returns
DefaultInsights == <<DefaultTat, DefaultConversion>>

\* Insight 1: Improve Turn Around Time
ImproveTat(db) ==
    LET best == bestCallingHour(db)
        stats == hourlyStats(db)
        n == Len(stats)
        sum == SumSeq([i \in 1..n |-> stats[i].successRate])
        potentialImprovement ==
            IF best.successRate * n > sum
            THEN Round(100 * (best.successRate * n - sum), sum)
            ELSE 2
    IN  IF best.hour >= 8 /\ best.hour <= 12 /\ n > 0
        THEN Insight("improve-tat", potentialImprovement, potentialImprovement,
                     Max(8, best.hour - 1), Min(12, best.hour + 3),
                     "turnAroundTime", "high")
        ELSE DefaultTat

\* Insight 2: Increase Conversion Rate; currentConversionRate is
\* (convertedLeads.length / totalLeads) * 100
ImproveConversion(db) ==
    LET best == bestCallingHour(db)
        isSold(l) == l.sold
        total == Len(db)
        converted == Len(SelectSeq(db, isSold))
        potentialConversionImprovement ==
            IF best.successRate * total > 10000 * converted
            THEN IF converted = 0 THEN Infinity
                 ELSE Round(100 * (best.successRate * total - 10000 * converted),
                            10000 * converted)
            ELSE 2
    IN  IF best.successRate > 0
        THEN Insight("improve-conversion", potentialConversionImprovement,
                     potentialConversionImprovement,
                     Max(8, best.hour - 1), Min(12, best.hour + 3),
                     "conversionRate", "high")
        ELSE DefaultConversion

\* Insight 3: currentTAT > 7 and currentConversionRate < 5
ReduceResponseTime(db) ==
    LET isContacted(l) == l.hour # NotContacted
        contacted == SelectSeq(db, isContacted)
        totalDays == SumSeq([i \in 1..Len(contacted) |-> contacted[i].days])
    IN  IF Len(contacted) > 0 /\ totalDays > 7 * Len(contacted)
        THEN << Insight("reduce-response-time", 20, 20, 0, 0, "turnAroundTime", "medium") >>
        ELSE << >>

BoostConversions(db) ==
    LET isSold(l) == l.sold
    IN  IF Len(db) = 0 \/ 100 * Len(SelectSeq(db, isSold)) < 5 * Len(db)
        THEN << Insight("boost-conversions", 15, 15, 0, 0, "conversionRate", "medium") >>
        ELSE << >>

\* the statements of the try block, in order
TrySteps ==
    << "getCallingPatternAnalysis", "getLeads", "currentTAT", "improve-tat",
       "improve-conversion", "reduce-response-time", "boost-conversions",
       "logger.info" >>

\* what a statement of the try block pushes onto insights
Pushed(db, step) ==
    CASE step = "improve-tat" -> <<ImproveTat(db)>>
      [] step = "improve-conversion" -> <<ImproveConversion(db)>>
      [] step = "reduce-response-time" -> ReduceResponseTime(db)
      [] step = "boost-conversions" -> BoostConversions(db)
      [] OTHER -> << >>

\* insights after the first n statements of the try block
RECURSIVE InsightsAfter(_, _)
InsightsAfter(db, n) ==
    IF n = 0 THEN << >>
    ELSE InsightsAfter(db, n - 1) \o Pushed(db, TrySteps[n])

NoThrow == 0

\* mutant of CatchReturn: the catch block returns what was built so far,
\* followed by the defaults
CatchReturnBuilt(insights) == insights \o DefaultInsights

\* catch (error): logger.error, return the two default insights
CatchReturn(insights) == DefaultInsights

\* generateActionableInsights(filters) on the leads db, with statement
\* throwAt of the try block throwing (NoThrow: none does)
generateActionableInsights(db, throwAt) ==
    IF throwAt = NoThrow
    THEN [throwAt |-> "", built |-> InsightsAfter(db, Len(TrySteps)), threw |-> FALSE,
          returned |-> InsightsAfter(db, Len(TrySteps)), propagated |-> FALSE]
    ELSE [throwAt |-> TrySteps[throwAt], built |-> InsightsAfter(db, throwAt - 1),
          threw |-> TRUE,
          returned |-> CatchReturn(InsightsAfter(db, throwAt - 1)),
          propagated |-> FALSE]

----------------------------------------------------------------------------
(***************************************************************************)
(* SpecInsight: generateActionableInsights over small lead tables          *)
(***************************************************************************)
\* leads in the table
MaxLeads == 2

LeadHours == {NotContacted, 7, 9, 22}
LeadDays == {1, 10}

Leads == [hour : LeadHours, sold : BOOLEAN, days : LeadDays]

InitInsight ==
    /\ now = 0
    /\ CacheIdle
    /\ RateIdle
    /\ LimIdle
    /\ RouteIdle
    /\ SanIdle
    /\ KeyIdle
    /\ DashIdle
    /\ SeriesIdle
    /\ RankIdle
    /\ iDb \in UNION {[1..n -> Leads] : n \in 0..MaxLeads}
    /\ iCall = [throwAt |-> "", built |-> << >>, threw |-> FALSE,
                returned |-> << >>, propagated |-> FALSE]

\* a call in which no statement throws
ICall ==
    /\ iCall' = generateActionableInsights(iDb, NoThrow)
    /\ UNCHANGED <<now, iDb, notInsight>>

\* a call in which one statement of the try block throws
ICallThrowing ==
    /\ \E s \in 1..Len(TrySteps) : iCall' = generateActionableInsights(iDb, s)
    /\ UNCHANGED <<now, iDb, notInsight>>

NextInsight == ICall \/ ICallThrowing

SpecInsight == InitInsight /\ [][NextInsight]_vars

Range(seq) == {seq[i] : i \in 1..Len(seq)}

HasWindow(insight) == insight.id \in {"improve-tat", "improve-conversion"}

\* C12: for every best hour and every returned insight that embeds a calling
\* window, the window stays in business hours: 8 <= start <= end <= 12.
C12_WindowInBusinessHours ==
    \A insight \in Range(iCall.returned) :
        HasWindow(insight) =>
            /\ 8 <= insight.startHour
            /\ insight.startHour <= insight.endHour
            /\ insight.endHour <= 12

----------------------------------------------------------------------------
(***************************************************************************)
(* SpecFloor: generateActionableInsights over tables of three leads, where *)
(* an hourly rate and the overall rate first differ by rounding only       *)
(***************************************************************************)
\* leads in the table
MaxFloorLeads == 3

FloorLeads == [hour : {NotContacted, 9, 10}, sold : BOOLEAN, days : {1}]

InitFloor ==
    /\ now = 0
    /\ CacheIdle
    /\ RateIdle
    /\ LimIdle
    /\ RouteIdle
    /\ SanIdle
    /\ KeyIdle
    /\ DashIdle
    /\ SeriesIdle
    /\ RankIdle
    /\ iDb \in UNION {[1..n -> FloorLeads] : n \in 0..MaxFloorLeads}
    /\ iCall = [throwAt |-> "", built |-> << >>, threw |-> FALSE,
                returned |-> << >>, propagated |-> FALSE]

SpecFloor == InitFloor /\ [][ICall]_vars

\* C24: the improvement estimate of the improve-tat and improve-conversion
\* insights is never below 2, for every hourly calling pattern and every
\* current conversion rate.
C24_ImprovementFloor ==
    \A insight \in Range(iCall.returned) :
        HasWindow(insight) => insight.improvement >= 2

----------------------------------------------------------------------------
(***************************************************************************)
(* Date ranges and period series of the repository.  Dates are kept in     *)
(* whole seconds (the clock of these specifications only takes whole       *)
(* seconds); a lead created before the run has a negative createdAt.       *)
(***************************************************************************)
\* 24 * 60 * 60 * 1000 milliseconds, in seconds
DaySec == 24 * 60 * 60

\* new Date(), in seconds
SecOf(t) == t \div MsPerSec

\* getDateRangeFilter: the lower bound of createdAt, << >> when there is none
getDateRangeFilter(dateRange, t) ==
    CASE dateRange = "last7days" -> <<SecOf(t) - 7 * DaySec>>
      [] dateRange = "last30days" -> <<SecOf(t) - 30 * DaySec>>
      [] dateRange = "last90days" -> <<SecOf(t) - 90 * DaySec>>
      [] dateRange = "lastYear" -> <<SecOf(t) - 365 * DaySec>>
      [] OTHER -> << >>

\* filters.dateRange (undefined: "")
DateRangeOf(filters) ==
    IF HasParam(filters, "dateRange") THEN Param(filters, "dateRange") ELSE ""

\* getLeads: the leads with createdAt >= the lower bound of the date range
getLeads(db, filters, t) ==
    LET dateFilter == getDateRangeFilter(DateRangeOf(filters), t)
        matches(l) == dateFilter = << >> \/ l.createdAt >= dateFilter[1]
    IN  SelectSeq(db, matches)

\* periodDays, in seconds
PeriodWidth(filters) ==
    (IF DateRangeOf(filters) = "last7days" THEN 1
     ELSE IF DateRangeOf(filters) = "last30days" THEN 4 ELSE 7) * DaySec

\* periodStart and periodEnd of loop index i
PeriodStart(filters, i, t) == SecOf(t) - (i + 1) * PeriodWidth(filters)
PeriodEnd(filters, i, t) == SecOf(t) - i * PeriodWidth(filters)

\* mutant of InPeriod: the end of the period is included
InPeriodClosed(l, filters, i, t) ==
    l.createdAt >= PeriodStart(filters, i, t) /\ l.createdAt <= PeriodEnd(filters, i, t)

\* where.createdAt = { gte: periodStart, lt: periodEnd }
InPeriod(l, filters, i, t) ==
    l.createdAt >= PeriodStart(filters, i, t) /\ l.createdAt < PeriodEnd(filters, i, t)

\* `${i + 1}${i === 0 ? 'st' : i === 1 ? 'nd' : i === 2 ? 'rd' : 'th'}`
PeriodLabel(i) ==
    <<i + 1, IF i = 0 THEN "st" ELSE IF i = 1 THEN "nd" ELSE IF i = 2 THEN "rd" ELSE "th">>

\* one pass of the loop of getLeadsByBranchOverTime
LeadsPeriod(db, filters, i, t) ==
    LET inPeriod(l) == InPeriod(l, filters, i, t)
        soldInPeriod(l) == InPeriod(l, filters, i, t) /\ l.sold
        totalLeads == Len(SelectSeq(db, inPeriod))
        convertedLeads == Len(SelectSeq(db, soldInPeriod))
    IN  [period |-> PeriodLabel(i), leads |-> totalLeads,
         conversionRate |-> IF totalLeads > 0
                            THEN Round(10000 * convertedLeads, totalLeads)
                            ELSE 0]

\* getLeadsByBranchOverTime: for (i = periods - 1; i >= 0; i--) results.push
getLeadsByBranchOverTime(db, filters, periods, t) ==
    [k \in 1..periods |-> LeadsPeriod(db, filters, periods - k, t)]

\* one pass of the loop of getRevenueByBranchOverTime; target is kept in
\* hundredths
RevenuePeriod(db, filters, i, t) ==
    LET soldInPeriod(l) == InPeriod(l, filters, i, t) /\ l.sold
        sold == SelectSeq(db, soldInPeriod)
        revenue == SumSeq([j \in 1..Len(sold) |-> sold[j].revenue])
    IN  [period |-> PeriodLabel(i), revenue |-> revenue, target |-> 110 * revenue]

\* getRevenueByBranchOverTime
getRevenueByBranchOverTime(db, filters, periods, t) ==
    [k \in 1..periods |-> RevenuePeriod(db, filters, periods - k, t)]

\* getLeadsByBranchOverTime(filters, 7), getRevenueByBranchOverTime(filters, 7)
DashboardPeriods == 7

\* the dashboard getDashboardData composes from the leads db at clock reading t
computeDashboard(db, filters, t) ==
    [totalLeads |-> Len(getLeads(db, filters, t)),
     leadsByBranch |-> getLeadsByBranchOverTime(db, filters, DashboardPeriods, t),
     revenueByBranch |-> getRevenueByBranchOverTime(db, filters, DashboardPeriods, t),
     filters |-> filters]

\* mutant of CachedDashboard: the entry is never found
CachedDashboardMiss(c, filters, t) == [cache |-> c, value |-> Null]

\* getDashboardData: cache.get(cacheKey)
CachedDashboard(c, filters, t) == CacheGet(c, DashboardCacheKey(filters), t)

----------------------------------------------------------------------------
(***************************************************************************)
(* SpecSeries: calls of the two series functions, and SpecIdem: calls of   *)
(* getDashboardData, over an unchanging lead table at different times      *)
(***************************************************************************)
\* leads in the table
MaxSeriesLeads == 2

\* periods asked of a series function
MaxPeriods == 7

\* calls of getDashboardData in one run
MaxCalls == 2

\* createdAt of the leads: on and just inside the edges of the date range
\* and of the periods at the start of the run
LeadTimes == {-7 * DaySec, -7 * DaySec + 100, -DaySec, -100}

\* a sold lead at each of the times, and one that was not sold
SeriesLeads ==
    {[createdAt |-> t, sold |-> TRUE, revenue |-> 100] : t \in LeadTimes}
        \cup {[createdAt |-> -100, sold |-> FALSE, revenue |-> 100]}

SeriesFilters ==
    {<< <<"dateRange", "last7days">> >>, << <<"dateRange", "last30days">> >>,
     << <<"dateRange", "all">> >>}

InitSeries ==
    /\ now = 0
    /\ CacheIdle
    /\ RateIdle
    /\ LimIdle
    /\ RouteIdle
    /\ SanIdle
    /\ KeyIdle
    /\ DashIdle
    /\ InsightIdle
    /\ RankIdle
    /\ sDb \in UNION {[1..n -> SeriesLeads] : n \in 0..MaxSeriesLeads}
    /\ sFilters \in SeriesFilters
    /\ sCalls = << >>
    /\ sSeries = NoSeries

\* getDashboardData(filters), from cache.get to the return
SGetDashboardData ==
    LET g == CachedDashboard(cache, sFilters, now)
        data == computeDashboard(sDb, sFilters, now)
    IN  /\ Len(sCalls) < MaxCalls
        /\ IF g.value # Null
           THEN /\ cache' = g.cache
                /\ sCalls' = Append(sCalls, [at |-> now, cached |-> TRUE,
                                             result |-> g.value])
           ELSE /\ cache' = StoreResult(g.cache, DashboardCacheKey(sFilters), data,
                                        "dashboard", now)
                /\ sCalls' = Append(sCalls, [at |-> now, cached |-> FALSE,
                                             result |-> data])
        /\ UNCHANGED <<now, sDb, sFilters, sSeries, notSeries>>

\* getLeadsByBranchOverTime(filters, periods)
SLeadsOverTime(periods) ==
    /\ sSeries' = [fn |-> "leads", periods |-> periods, at |-> now,
                   result |-> getLeadsByBranchOverTime(sDb, sFilters, periods, now)]
    /\ UNCHANGED <<now, cache, sDb, sFilters, sCalls, notSeries>>

\* getRevenueByBranchOverTime(filters, periods)
SRevenueOverTime(periods) ==
    /\ sSeries' = [fn |-> "revenue", periods |-> periods, at |-> now,
                   result |-> getRevenueByBranchOverTime(sDb, sFilters, periods, now)]
    /\ UNCHANGED <<now, cache, sDb, sFilters, sCalls, notSeries>>

STick ==
    /\ \E d \in DashSteps : now + d <= DashMaxTime /\ now' = now + d
    /\ UNCHANGED <<cache, sDb, sFilters, sCalls, sSeries, notSeries>>

NextSeries ==
    \/ \E n \in 1..MaxPeriods : SLeadsOverTime(n)
    \/ \E n \in 1..MaxPeriods : SRevenueOverTime(n)
    \/ STick

SpecSeries == InitSeries /\ [][NextSeries]_vars

NextIdem == SGetDashboardData \/ STick

SpecIdem == InitSeries /\ [][NextIdem]_vars

\* C11: getDashboardData called twice with the same filter while the lead
\* data are unchanged returns identical results, whenever the two calls are
\* made, also when the cache entry of the first has expired in between.
C11_Idempotent ==
    \A i, j \in 1..Len(sCalls) : sCalls[i].result = sCalls[j].result

\* C11, as the code has it: a call made no later than 300 seconds after a
\* call that computed its result returns that same result (from the cache);
\* a call made later computes again, from the date range and the periods as
\* they lie at that later time.
C11_IdempotentWithinTTL ==
    \A i, j \in 1..Len(sCalls) :
        (i < j /\ ~sCalls[i].cached
               /\ sCalls[j].at <= sCalls[i].at + DashboardTTL * MsPerSec) =>
            /\ sCalls[j].cached
            /\ sCalls[j].result = sCalls[i].result

\* C11 witness: the second call comes exactly 300 seconds after the first,
\* by when a lead has left the date range, and returns the first result
C11_Witness ==
    /\ Len(sCalls) = 2
    /\ ~sCalls[1].cached
    /\ sCalls[2].at = sCalls[1].at + DashboardTTL * MsPerSec
    /\ sCalls[2].result = sCalls[1].result
    /\ sCalls[2].result # computeDashboard(sDb, sFilters, sCalls[2].at)

\* sum of f[k] for k in 1..n
RECURSIVE SumTo(_, _)
SumTo(f, n) == IF n = 0 THEN 0 ELSE f[n] + SumTo(f, n - 1)

\* the leads of the table created in [from, to)
CreatedIn(from, to) == {j \in 1..Len(sDb) : sDb[j].createdAt >= from /\ sDb[j].createdAt < to}

\* C13: for N periods of width w the N buckets returned are the right-open
\* intervals [now-(i+1)*w, now-i*w), oldest first and the most recent last;
\* they are contiguous and disjoint, so every lead created in [now-N*w, now)
\* is counted in exactly one bucket and the counts (and the revenues) of the
\* buckets sum to those of all such leads.
C13_BucketsPartition ==
    sSeries.fn # "" =>
        LET N == sSeries.periods
            t == SecOf(sSeries.at)
            w == PeriodWidth(sFilters)
            from(k) == t - (N - k + 1) * w
            to(k) == t - (N - k) * w
            revenueOf(S) == SumSeq([j \in 1..Len(sDb) |->
                               IF j \in S /\ sDb[j].sold THEN sDb[j].revenue ELSE 0])
        IN  /\ Len(sSeries.result) = N
            /\ to(N) = t
            /\ \A k \in 1..N :
                  /\ from(k) = PeriodStart(sFilters, N - k, sSeries.at)
                  /\ to(k) = PeriodEnd(sFilters, N - k, sSeries.at)
                  /\ k < N => to(k) = from(k + 1)
                  /\ sSeries.fn = "leads" =>
                        sSeries.result[k].leads = Cardinality(CreatedIn(from(k), to(k)))
                  /\ sSeries.fn = "revenue" =>
                        sSeries.result[k].revenue = revenueOf(CreatedIn(from(k), to(k)))
            /\ \A j \in CreatedIn(t - N * w, t) :
                  Cardinality({k \in 1..N : j \in CreatedIn(from(k), to(k))}) = 1
            /\ sSeries.fn = "leads" =>
                  SumTo([k \in 1..N |-> sSeries.result[k].leads], N)
                      = Cardinality(CreatedIn(t - N * w, t))
            /\ sSeries.fn = "revenue" =>
                  SumTo([k \in 1..N |-> sSeries.result[k].revenue], N)
                      = revenueOf(CreatedIn(t - N * w, t))

\* C13 witness: seven one-day buckets; one lead created exactly where the
\* oldest bucket starts, one exactly where the most recent bucket starts;
\* each is counted once, in the bucket it starts
C13_Witness ==
    /\ sSeries.fn = "leads"
    /\ sSeries.periods = 7
    /\ PeriodWidth(sFilters) = DaySec
    /\ Len(sDb) = 2
    /\ sDb[1].createdAt = SecOf(sSeries.at) - 7 * DaySec
    /\ sDb[2].createdAt = SecOf(sSeries.at) - DaySec
    /\ sSeries.result[1].leads = 1
    /\ sSeries.result[6].leads = 0
    /\ sSeries.result[7].leads = 1

\* C14: in the series returned the oldest bucket, which comes first, is
\* labelled "1st" and the most recent, which comes last, carries the ordinal
\* of N ("7th" for 7 periods): labels ascend in the order of the buckets.
C14_LabelsAscend ==
    sSeries.fn # "" =>
        LET N == sSeries.periods
        IN  /\ sSeries.result[1].period = <<1, "st">>
            /\ sSeries.result[N].period[1] = N
            /\ \A k \in 1..N : sSeries.result[k].period[1] = k

----------------------------------------------------------------------------
(***************************************************************************)
(* Ranking engine (calculatePerformanceScore, getBranchRanking).  A branch *)
(* row is what getAllBranchesPerformance returns; conversionRate and       *)
(* avgTurnAroundTime, which have two decimals, are kept in hundredths, and *)
(* so is the score.                                                        *)
(***************************************************************************)
\* String.prototype.toLowerCase, on the letters the names use
LowerCase(ch) ==
    CASE ch = "A" -> "a" [] ch = "B" -> "b" [] ch = "C" -> "c" [] ch = "F" -> "f"
      [] OTHER -> ch

toLowerCase(str) == [i \in 1..Len(str) |-> LowerCase(str[i])]

\* mutant of calculatePerformanceScore: more revenue lowers the score
ScoreFallingWithRevenue(revenue, conversionRate, leads, tat) ==
    Round(75 * conversionRate + 50 * leads + 4000 - revenue, 25)

\* calculatePerformanceScore, in hundredths:
\*   (revenue / 1000) * 0.4 + (conversionRate * 10) * 0.3 + (leads / 10) * 0.2
\*     + (tat > 0 ? 100 / tat : 0) * 0.1, then Number(score.toFixed(2))
calculatePerformanceScore(revenue, conversionRate, leads, tat) ==
    IF tat > 0
    THEN Round(revenue * tat + 75 * conversionRate * tat + 50 * leads * tat + 2500000,
               25 * tat)
    ELSE Round(revenue + 75 * conversionRate + 50 * leads, 25)

\* branchesWithScores: allBranches.map(branch => ({ ...branch, score }))
WithScore(branch) ==
    [branchName |-> branch.branchName, totalLeads |-> branch.totalLeads,
     totalRevenue |-> branch.totalRevenue, conversionRate |-> branch.conversionRate,
     avgTurnAroundTime |-> branch.avgTurnAroundTime,
     score |-> calculatePerformanceScore(branch.totalRevenue, branch.conversionRate,
                                         branch.totalLeads, branch.avgTurnAroundTime)]

\* mutant of ComesBefore: among equal scores the later branch comes first
ComesBeforeOrTies(a, b) == a.score >= b.score

\* the comparator (a, b) => b.score - a.score of a stable sort: a stays in
\* front of a later b unless b scores more
ComesBefore(a, b) == a.score > b.score

\* Array.prototype.sort: x, later in the array than all of sorted, is put
\* behind every element it does not come before
RECURSIVE InsertSorted(_, _)
InsertSorted(sorted, x) ==
    IF sorted = << >> THEN <<x>>
    ELSE IF ComesBefore(x, sorted[Len(sorted)])
         THEN InsertSorted(SubSeq(sorted, 1, Len(sorted) - 1), x)
                  \o <<sorted[Len(sorted)]>>
         ELSE Append(sorted, x)

RECURSIVE SortByScore(_)
SortByScore(branches) ==
    IF branches = << >> THEN << >>
    ELSE InsertSorted(SortByScore(SubSeq(branches, 1, Len(branches) - 1)),
                      branches[Len(branches)])

\* Array.prototype.findIndex, 1-based; 0 when there is none (-1 in the code)
FindIndex(sorted, name) ==
    LET hits == {i \in 1..Len(sorted) : toLowerCase(sorted[i].branchName) = toLowerCase(name)}
    IN  IF hits = {} THEN 0 ELSE CHOOSE i \in hits : \A j \in hits : i <= j

\* getBranchRanking; branch is filters.branch, << >> when the filter has none
getBranchRanking(allBranches, branch) ==
    IF Len(allBranches) = 0
    THEN [position |-> 1, totalBranches |-> 1, branch |-> << >>, score |-> 0]
    ELSE LET branchesWithScores ==
                 SortByScore([i \in 1..Len(allBranches) |-> WithScore(allBranches[i])])
             currentBranchIndex == FindIndex(branchesWithScores, branch)
         IN  IF branch # << >>
             THEN IF currentBranchIndex # 0
                  THEN [position |-> currentBranchIndex,
                        totalBranches |-> Len(allBranches), branch |-> branch,
                        score |-> branchesWithScores[currentBranchIndex].score]
                  ELSE [position |-> 1, totalBranches |-> Len(allBranches),
                        branch |-> branch, score |-> 0]
             ELSE [position |-> 1, totalBranches |-> Len(allBranches),
                   branch |-> branch, score |-> branchesWithScores[1].score]

----------------------------------------------------------------------------
(***************************************************************************)
(* SpecRank: calls of getBranchRanking while the revenue of the selected   *)
(* branch grows                                                            *)
(***************************************************************************)
\* branches in the table
MaxBranches == 3

BranchNames == << <<"A", "a">>, <<"B", "b">>, <<"C", "c">>, <<"D", "d">> >>

\* what the branch filter may name: a branch in either case, or none there is
BranchFilters == {<< >>, <<"a", "a">>, <<"B", "B">>, <<"C", "c">>, <<"z">>}

RevenueChoices == {0, 1000, 1010, 2000}

BranchMetrics ==
    {[totalLeads |-> 0, totalRevenue |-> 0, conversionRate |-> 0, avgTurnAroundTime |-> 0],
     [totalLeads |-> 10, totalRevenue |-> 1000, conversionRate |-> 1000, avgTurnAroundTime |-> 200],
     [totalLeads |-> 10, totalRevenue |-> 2000, conversionRate |-> 1000, avgTurnAroundTime |-> 200],
     [totalLeads |-> 20, totalRevenue |-> 1000, conversionRate |-> 500, avgTurnAroundTime |-> 400]}

BranchRow(name, m) ==
    [branchName |-> name, totalLeads |-> m.totalLeads, totalRevenue |-> m.totalRevenue,
     conversionRate |-> m.conversionRate, avgTurnAroundTime |-> m.avgTurnAroundTime]

BranchTables ==
    UNION {{[i \in 1..n |-> BranchRow(BranchNames[i], m[i])] : m \in [1..n -> BranchMetrics]}
              : n \in 0..MaxBranches}

InitRank ==
    /\ now = 0
    /\ CacheIdle
    /\ RateIdle
    /\ LimIdle
    /\ RouteIdle
    /\ SanIdle
    /\ KeyIdle
    /\ DashIdle
    /\ InsightIdle
    /\ SeriesIdle
    /\ rTable \in BranchTables
    /\ rBranch \in BranchFilters
    /\ rFirst = NoRanking
    /\ rLast = NoRanking

\* getBranchRanking(filters) on the table as it is
RankCall ==
    LET call == [called |-> TRUE, table |-> rTable,
                 result |-> getBranchRanking(rTable, rBranch)]
    IN  /\ rLast' = call
        /\ rFirst' = IF rFirst.called THEN rFirst ELSE call
        /\ UNCHANGED <<now, rTable, rBranch, notRank>>

\* a sale raises the total revenue of the selected branch; every other
\* metric of every branch stays as it is
RaiseRevenue ==
    /\ \E i \in 1..Len(rTable), v \in RevenueChoices :
          /\ toLowerCase(rTable[i].branchName) = toLowerCase(rBranch)
          /\ v > rTable[i].totalRevenue
          /\ rTable' = [rTable EXCEPT ![i].totalRevenue = v]
    /\ UNCHANGED <<now, rBranch, rFirst, rLast, notRank>>

NextRank == RankCall \/ RaiseRevenue

SpecRank == InitRank /\ [][NextRank]_vars

\* index in table of the branch the filter names, 0 when there is none
Selected(table) ==
    IF \E i \in 1..Len(table) : toLowerCase(table[i].branchName) = toLowerCase(rBranch)
    THEN CHOOSE i \in 1..Len(table) : toLowerCase(table[i].branchName) = toLowerCase(rBranch)
    ELSE 0

ScoreOf(b) ==
    calculatePerformanceScore(b.totalRevenue, b.conversionRate, b.totalLeads,
                              b.avgTurnAroundTime)

\* the branches of table that precede branch i when all are ordered by score
\* descending, equal scores in the order of the table
Preceding(table, i) ==
    {j \in 1..Len(table) :
        \/ ScoreOf(table[j]) > ScoreOf(table[i])
        \/ ScoreOf(table[j]) = ScoreOf(table[i]) /\ j < i}

\* C15: for a branch filter that names an existing branch, whatever the case
\* of its letters, getBranchRanking returns position = 1 + the number of
\* branches that precede it when all are ordered by score descending with
\* equal scores in their original order, and totalBranches = the number of
\* branches.
C15_RankPosition ==
    (rLast.called /\ Selected(rLast.table) # 0) =>
        /\ rLast.result.position
              = 1 + Cardinality(Preceding(rLast.table, Selected(rLast.table)))
        /\ rLast.result.totalBranches = Len(rLast.table)

\* C15 witness: the filter names, in another case, the second of two
\* branches with equal scores, below a third branch that scores more
C15_Witness ==
    /\ rLast.called
    /\ Len(rLast.table) = 3
    /\ Selected(rLast.table) = 2
    /\ rLast.table[2].branchName # rBranch
    /\ ScoreOf(rLast.table[1]) = ScoreOf(rLast.table[2])
    /\ ScoreOf(rLast.table[3]) > ScoreOf(rLast.table[2])
    /\ rLast.result.position = 3

\* C16: raising the total revenue of the selected branch while every other
\* metric of every branch stays fixed never makes the position returned for
\* it larger, and repeated calls on unchanged metrics return the same
\* position.
C16_RankMonotone ==
    (rFirst.called /\ rLast.called) =>
        /\ rLast.result.position <= rFirst.result.position
        /\ rLast.table = rFirst.table => rLast.result = rFirst.result

\* C16 witness: the revenue of the selected branch was raised between two
\* calls and took it from position 2 to position 1
C16_Witness ==
    /\ rFirst.called /\ rLast.called
    /\ Selected(rLast.table) # 0
    /\ rLast.table[Selected(rLast.table)].totalRevenue
          > rFirst.table[Selected(rFirst.table)].totalRevenue
    /\ rFirst.result.position = 2
    /\ rLast.result.position = 1

----------------------------------------------------------------------------
(***************************************************************************)
(* The dashboard router: each route is a stack of middleware that ends in  *)
(* its controller.  A middleware either sends a response, which ends the   *)
(* request, or calls next().                                               *)
(***************************************************************************)
RootPath == <<"/">>
FiltersPath == <<"/", "f", "i", "l", "t", "e", "r", "s">>

\* router.use(performanceMonitor); router.get('/filters', ...); router.get('/', ...)
\* mutant of RouteStack: validation is mounted before the limiter
RouteStackValidateFirst(routePath) ==
    IF routePath = FiltersPath
    THEN <<"performanceMonitor", "apiRateLimit", "getFilters">>
    ELSE <<"performanceMonitor", "validate", "apiRateLimit", "getDashboard">>

\* the middleware of a route, in the order the router runs them
RouteStack(routePath) ==
    IF routePath = FiltersPath
    THEN <<"performanceMonitor", "apiRateLimit", "getFilters">>
    ELSE <<"performanceMonitor", "apiRateLimit", "validate", "getDashboard">>

\* Router(): caseSensitive and strict are off, so a route matches its path
\* in any letter case, with or without a trailing slash
MatchesRoute(routePath, path) ==
    LET p == toLowerCase(path)
    IN  \/ p = routePath
        \/ Len(p) > 1 /\ p[Len(p)] = "/" /\ SubSeq(p, 1, Len(p) - 1) = routePath

\* the route a request path is dispatched to: the first registered that matches
Dispatch(path) == IF MatchesRoute(FiltersPath, path) THEN FiltersPath ELSE RootPath

\* express-validator: an .optional() chain is skipped when the parameter is absent
ValidParam(p) ==
    IF p[1] = "dateRange" THEN p[2] \in ValidDateRanges
    ELSE Len(Trim(p[2])) >= 1 /\ Len(Trim(p[2])) <= MaxStringLength

\* validate(validateDashboardQuery): validationResult(req).isEmpty()
ValidQuery(query) == \A i \in 1..Len(query) : ValidParam(query[i])

\* position of a request that has been answered by a middleware
Ended == 0

\* mutant of AfterLimiter: the limiter calls next() after a rejection too
AfterLimiterAlways(outcome, pos) == pos + 1

\* the limiter returns after sendError, and calls next() otherwise
AfterLimiter(outcome, pos) == IF outcome = "reject" THEN Ended ELSE pos + 1

----------------------------------------------------------------------------
(***************************************************************************)
(* SpecRoute: two requests of one client travelling down their routes      *)
(***************************************************************************)
\* the request paths, relative to the mount point of the router
RoutePaths == {RootPath, FiltersPath, <<"/", "F">> \o SubSeq(FiltersPath, 3, 8),
               FiltersPath \o <<"/">>}

RouteQueries ==
    {<< >>, << <<"dateRange", "thisWeek">> >>, << <<"branch", <<"a">>>> >>}

\* requests a client sends: a query string only on the dashboard route
RouteRequests ==
    {[path |-> p, query |-> q] :
        p \in RoutePaths, q \in RouteQueries} \ 
    {[path |-> p, query |-> q] :
        p \in RoutePaths \ {RootPath}, q \in RouteQueries \ {<< >>}}

\* requests of the client the limiter has counted already in the open
\* window of each route: none, one short of the limit, the limit
EarlierRequests == {0, apiRateLimit.maxRequests - 1, apiRateLimit.maxRequests}

StoreAfter(n) ==
    IF n = 0 THEN EmptyMap
    ELSE [k \in {RateKey(RootPath, "ip1"), RateKey(FiltersPath, "ip1")} |->
             [count |-> n, resetTime |-> apiRateLimit.windowMs]]

notRoute == <<cacheVars, options, pending, reqLog, unswept, limVars, sanVars,
              keyVars, dashVars, insVars, seriesVars, rankVars>>

InitRoute ==
    /\ now = 0
    /\ CacheIdle
    /\ LimIdle
    /\ SanIdle
    /\ KeyIdle
    /\ InsightIdle
    /\ SeriesIdle
    /\ RankIdle
    /\ options = apiRateLimit
    /\ store \in {StoreAfter(n) : n \in EarlierRequests}
    /\ pending = EmptyMap
    /\ reqLog = EmptyMap
    /\ unswept = EmptyMap
    /\ dataVersion = 0
    /\ faults = 0
    /\ req = [r \in Reqs |-> NoRequest]
    /\ stores = << >>
    /\ route \in [Reqs -> {[path |-> x.path, query |-> x.query, client |-> "ip1",
                             pos |-> 1, status |-> 0, trace |-> << >>,
                             key |-> << >>] : x \in RouteRequests}]

\* the middleware request r has come to
Current(r) ==
    IF route[r].pos = Ended \/ route[r].pos > Len(RouteStack(Dispatch(route[r].path)))
    THEN "none"
    ELSE RouteStack(Dispatch(route[r].path))[route[r].pos]

\* performanceMonitor: wraps res.end and calls next()
TMonitor(r) ==
    /\ Current(r) = "performanceMonitor"
    /\ route' = [route EXCEPT ![r].pos = @ + 1,
                              ![r].trace = Append(@, "performanceMonitor")]
    /\ UNCHANGED <<now, store, notRoute>>

\* apiRateLimit
TRateLimit(r) ==
    LET key == RateKey(route[r].path, route[r].client)
        l == RateLimit(store, options, key, now)
    IN  /\ Current(r) = "apiRateLimit"
        /\ store' = l.store
        /\ route' = [route EXCEPT ![r].pos = AfterLimiter(l.outcome, @),
                                  ![r].status = l.status,
                                  ![r].key = key,
                                  ![r].trace = Append(@, "apiRateLimit")]
        /\ UNCHANGED <<now, notRoute>>

\* validate(validateDashboardQuery)
TValidate(r) ==
    /\ Current(r) = "validate"
    /\ route' = [route EXCEPT
                    ![r].pos = IF ValidQuery(route[r].query) THEN @ + 1 ELSE Ended,
                    ![r].status = IF ValidQuery(route[r].query) THEN @ ELSE 400,
                    ![r].trace = Append(@, "validate")]
    /\ UNCHANGED <<now, store, notRoute>>

\* getDashboard / getFilters, up to the first await
TController(r) ==
    /\ Current(r) \in {"getDashboard", "getFilters"}
    /\ DStart(r, IF Current(r) = "getDashboard" THEN "dashboard" ELSE "filters",
              route[r].query)

NextRoute ==
    \/ \E r \in Reqs : TMonitor(r)
    \/ \E r \in Reqs : TRateLimit(r)
    \/ \E r \in Reqs : TValidate(r)
    \/ \E r \in Reqs : TController(r)
    \/ \E r \in Reqs : DQueryOk(r)
    \/ \E r \in Reqs : DQueryFail(r)

SpecRoute == InitRoute /\ [][NextRoute]_vars

\* the middleware of r's route that ran before the limiter did
BeforeLimiter(r) ==
    {route[r].trace[i] : i \in {j \in 1..Len(route[r].trace) :
        \A k \in 1..j : route[r].trace[k] # "apiRateLimit"}}

Counted(r) ==
    /\ \E i \in 1..Len(route[r].trace) : route[r].trace[i] = "apiRateLimit"
    /\ route[r].key \in DOMAIN store

\* the controller of r has started: it has looked its key up in the cache
ReachedCache(r) == req[r].pc # "idle"

\* C23: on both routes the limiter runs before validation and the
\* controller: a request it rejects with 429 triggers no validation, no cache
\* read or write and no data access, and every request that reaches the
\* cache lookup or fails validation has been counted by the limiter before.
C23_LimiterFirst ==
    \A r \in Reqs :
        /\ route[r].status = 429 =>
              /\ \A i \in 1..Len(route[r].trace) : route[r].trace[i] # "validate"
              /\ req[r] = NoRequest
              /\ \A n \in 1..Len(stores) : stores[n].by # r
        /\ (ReachedCache(r) \/ route[r].status = 400) =>
              /\ Counted(r)
              /\ "validate" \notin BeforeLimiter(r)

\* C23 witness: one request was rejected by the limiter and went no
\* further; the other, counted, failed validation
C23_Witness ==
    /\ route["r1"].status = 429 /\ req["r1"] = NoRequest
    /\ route["r2"].status = 400 /\ Counted("r2")

\* the event loop runs every callback that is ready, and every query that was
\* issued resolves or rejects
SpecRouteLive == SpecRoute /\ WF_vars(NextRoute)

\* responses sent for r: by a middleware, by the controller
Responses(r) ==
    (IF route[r].status # 0 THEN 1 ELSE 0) + (IF req[r].status # 0 THEN 1 ELSE 0)

StatusOf(r) == IF route[r].status # 0 THEN route[r].status ELSE req[r].status

\* C25: each request to GET /dashboard or GET /dashboard/filters eventually
\* produces exactly one response (200, 400, 429 or 500), provided every
\* persistence call eventually returns or fails; no path through limiter,
\* validation, controller and error handler sends two responses or none.
C25_ExactlyOneResponse ==
    /\ [](\A r \in Reqs : Responses(r) <= 1)
    /\ \A r \in Reqs :
          <>[](Responses(r) = 1 /\ StatusOf(r) \in {200, 400, 429, 500})

\* C25 witness: both requests have been answered once, one with 500 after
\* a query of its controller failed, the other with 200 after it recomputed
C25_Witness ==
    /\ Responses("r1") = 1 /\ req["r1"].status = 500
    /\ Responses("r2") = 1 /\ req["r2"].status = 200 /\ req["r2"].missed

\* C30: the requests of one client that the router dispatches to the same
\* route are counted in one record of the limiter: paths that differ only in
\* letter case or in a trailing slash give no separate records.
C30_OneRecordPerRoute ==
    \A r1, r2 \in Reqs :
        (/\ route[r1].key # << >>
         /\ route[r2].key # << >>
         /\ route[r1].client = route[r2].client
         /\ Dispatch(route[r1].path) = Dispatch(route[r2].path)) =>
            route[r1].key = route[r2].key

\* Requests sent with the same path do share one record.
SamePathOneRecord ==
    \A r1, r2 \in Reqs :
        (/\ route[r1].key # << >>
         /\ route[r2].key # << >>
         /\ route[r1].client = route[r2].client
         /\ route[r1].path = route[r2].path) =>
            /\ route[r1].key = route[r2].key
            /\ route[r1].key \in DOMAIN store

=========================================================================
